---- MODULE Spec2Model ----
(***************************************************************************)
(* The autoregressive order decoder of data/models/autoregressive_decoder. *)
(* An order vector (a 0/1 tensor of length ORDER_VOCAB_SIZE) is the set of *)
(* its hot indices; positions, rows and vocabulary indices count from 0 as *)
(* in the source.  The scorer (the Transformer layers and the output head) *)
(* is an arbitrary function from what a position can attend to, to a logit *)
(* vector: its value on a view is chosen when the view is first queried    *)
(* and remembered in `scorer`.  A logit l stands for l*ln(2), so that      *)
(* exp(logit) = 2^l and every probability is an exact rational; a          *)
(* cumulative log-probability is kept as the rational it is the logarithm  *)
(* of (a sum of log-probabilities is a product of probabilities, log is    *)
(* monotone, and -inf is probability 0).                                   *)
(***************************************************************************)
EXTENDS Integers, Sequences, FiniteSets, TLC

\* ---------------------------------------------------------------- sizes
\* Number of map areas (81 in the source; the vocabulary layout is kept).
NUM_AREAS == 3
\* Number of order types.
NUM_TYPES == 7
ORDER_VOCAB_SIZE == NUM_TYPES + NUM_AREAS + NUM_AREAS
\* Length S of the unit list handed to a decode call.
MaxUnits == 3
\* Largest beam width tried.
MaxBeam == 2
\* Largest num_samples and num_candidates tried.
MaxSamples == 2
MaxCandidates == 3
\* Largest number of tokens one call draws at random: from a filtered row,
\* and from the whole vocabulary.
MaxDraws == 4
MaxWideDraws == 1
\* Largest number of valid units for which generate_candidates samples.
MaxSampledUnits == 1
\* The temperatures and top_k values tried.
Temperatures == {0, 1, 2}
TopKs == {0, 1, 2}

TYPE_MOVE == 1
TYPE_RETREAT == 4
DST_START == NUM_TYPES + NUM_AREAS

Vocab == 0 .. (ORDER_VOCAB_SIZE - 1)
Positions == 0 .. (MaxUnits - 1)

\* ---------------------------------------------------------------- numbers
Pow10to9 == 1000 * 1000 * 1000
\* float("-inf") as a logit: below every finite logit, scaled or not.
NegInf == 0 - Pow10to9

Max(a, b) == IF a >= b THEN a ELSE b
Min(a, b) == IF a <= b THEN a ELSE b

RECURSIVE Pow(_, _)
Pow(b, e) == IF e = 0 THEN 1 ELSE b * Pow(b, e - 1)

RECURSIVE SumOver(_, _)
\* Sum of f[x] over the finite set D.
SumOver(f, D) ==
    IF D = {} THEN 0
    ELSE LET x == CHOOSE y \in D : TRUE IN f[x] + SumOver(f, D \ {x})

\* A probability (or a product of probabilities) n/d, d > 0.
Rat(n, d) == [n |-> n, d |-> d]
One == Rat(1, 1)
RECURSIVE Gcd(_, _)
Gcd(a, b) == IF b = 0 THEN a ELSE Gcd(b, a % b)
Norm(r) == IF r.n = 0 THEN Rat(0, 1)
           ELSE LET g == Gcd(r.n, r.d) IN Rat(r.n \div g, r.d \div g)
\* log a + log b
Plus(a, b) == Norm(Rat(a.n * b.n, a.d * b.d))
\* log a < log b, log a <= log b
Less(a, b) == a.n * b.d < b.n * a.d
Leq(a, b) == a.n * b.d <= b.n * a.d

\* A tensor: a function held as its table of values, each computed once.
Tensor(f) == IF f = f THEN f ELSE f

\* torch.Tensor.argmax over the entries I of the logits x: the first maximal
\* entry.
ArgMaxOf(x, I) ==
    CHOOSE i \in I : \A j \in I : x[j] < x[i] \/ (x[j] = x[i] /\ i <= j)

\* ---------------------------------------------------------------- order vectors
\* one_hot with a slip: the MOVE token also sets the first destination bit.
one_hot_composite(idx) == IF idx = TYPE_MOVE THEN {idx, DST_START} ELSE {idx}

\* F.one_hot(idx, V): the vector with the single entry idx set.
one_hot(idx) == {idx}
\* torch.zeros(V): the "no order" vector.
ZeroOrder == {}

\* order[lo:hi].argmax(): the first maximal entry of a 0/1 slice, relative
\* to lo; 0 when the slice is all zero.
SectionArgMax(order, lo, hi) ==
    LET hot == {v \in order : lo <= v /\ v < hi}
    IN IF hot = {} THEN 0
       ELSE (CHOOSE v \in hot : \A u \in hot : v <= u) - lo

\* order.argmax(dim=-1) over the whole vector.
VecArgMax(order) == SectionArgMax(order, 0, ORDER_VOCAB_SIZE)

\* OrderEmbedding.forward with a slip: the embedding is looked up by the arg
\* max over the whole vector.
OrderEmbeddingByIndex(order_vec) ==
    IF order_vec # {} THEN <<VecArgMax(order_vec)>> ELSE <<"null_embed">>

\* OrderEmbedding.forward: the embedding is determined by the three section
\* arg maxes, or is the null embedding for an all-zero vector.
OrderEmbedding(order_vec) ==
    LET type_idx == SectionArgMax(order_vec, 0, NUM_TYPES)
        src_idx == SectionArgMax(order_vec, NUM_TYPES, NUM_TYPES + NUM_AREAS)
        dst_idx == SectionArgMax(order_vec, NUM_TYPES + NUM_AREAS, ORDER_VOCAB_SIZE)
        has_order == order_vec # {}
    IN IF has_order THEN <<type_idx, src_idx, dst_idx>> ELSE <<"null_embed">>

\* ---------------------------------------------------------------- decoder input
\* prev_orders = None: no order generated yet.
None == <<>>

\* _build_causal_mask with a slip: nothing is masked.
build_causal_mask_open(seq_len) ==
    [i \in 0 .. (seq_len - 1) |-> [j \in 0 .. (seq_len - 1) |-> FALSE]]

\* _build_causal_mask: mask[i][j] = TRUE means position i may not attend to j.
build_causal_mask(seq_len) ==
    [i \in 0 .. (seq_len - 1) |-> [j \in 0 .. (seq_len - 1) |-> j > i]]

\* _build_decoder_input with a slip: the order embeddings are not shifted, so
\* position p is fed the order of position p itself.
build_decoder_input_unshifted(unit_indices, n, prev_orders) ==
    [p \in 0 .. (n - 1) |->
        [unit |-> Max(unit_indices[p], 0),
         pos |-> p,
         order |-> IF prev_orders = None \/ p = 0 THEN <<"sos_embed">>
                   ELSE OrderEmbedding(prev_orders[p])]]

\* _build_decoder_input over the first n positions: unit embedding (the board
\* row of the clamped index), position embedding, and the embedding of the
\* order one position earlier (the start token at position 0, and everywhere
\* when prev_orders is None).
build_decoder_input(unit_indices, n, prev_orders) ==
    [p \in 0 .. (n - 1) |->
        [unit |-> Max(unit_indices[p], 0),
         pos |-> p,
         order |-> IF prev_orders = None \/ p = 0 THEN <<"sos_embed">>
                   ELSE OrderEmbedding(prev_orders[p - 1])]]

\* What the decoder layers compute at position i: a function of the inputs
\* at the positions the mask lets i attend to, and of nothing else.
Attend(x, causal_mask, i) ==
    [j \in {j \in DOMAIN x : ~ causal_mask[i][j]} |-> x[j]]

\* The input of the scorer in _decode_step for one row at `step`.
decode_step_view(unit_indices, generated_row, step) ==
    Attend(build_decoder_input(unit_indices, step + 1,
                               IF step > 0 THEN generated_row ELSE None),
           build_causal_mask(step + 1), step)

\* The input of the scorer at position i of forward_teacher_forcing.
teacher_forcing_view(unit_indices, target_orders, i) ==
    Attend(build_decoder_input(unit_indices, MaxUnits, target_orders),
           build_causal_mask(MaxUnits), i)

\* ---------------------------------------------------------------- destination mask
\* _build_destination_mask for one row: the set of forbidden vocabulary
\* indices before `step`.
claims_dst(order) ==
    LET order_type == SectionArgMax(order, 0, NUM_TYPES)
        is_movement == order_type = TYPE_MOVE \/ order_type = TYPE_RETREAT
        has_dst == \E v \in order : v >= DST_START
    IN is_movement /\ has_dst

\* _build_destination_mask with a slip: every order with a destination bit
\* claims it, whatever its type.
build_destination_mask_any_type(generated_row, step) ==
    IF step = 0 THEN {}
    ELSE {DST_START + SectionArgMax(generated_row[s], DST_START, ORDER_VOCAB_SIZE) :
            s \in {s \in 0 .. (step - 1) : \E v \in generated_row[s] : v >= DST_START}}

\* _build_destination_mask with a slip: after step 0 the whole vocabulary is
\* forbidden.
build_destination_mask_whole(generated_row, step) ==
    IF step = 0 THEN {} ELSE Vocab

build_destination_mask(generated_row, step) ==
    IF step = 0 THEN {}
    ELSE {DST_START + SectionArgMax(generated_row[s], DST_START, ORDER_VOCAB_SIZE) :
            s \in {s \in 0 .. (step - 1) : claims_dst(generated_row[s])}}

\* ---------------------------------------------------------------- scores
\* exp(logit) in units of ln 2; exp(-inf) = 0.
Exp2(l) == IF l = NegInf THEN 0 ELSE Pow(2, l)

\* logits.masked_fill(mask, -inf)
masked_fill(logits, mask) ==
    Tensor([v \in Vocab |-> IF v \in mask THEN NegInf ELSE logits[v]])

\* exp(F.log_softmax(logits))[v]
log_softmax(logits) ==
    LET w == Tensor([v \in Vocab |-> Exp2(logits[v])])
        total == SumOver(w, Vocab)
    IN Tensor([v \in Vocab |-> Norm(Rat(w[v], total))])

RECURSIVE LcmOver(_, _)
\* Least common multiple of the denominators of the probabilities p over D.
LcmOver(p, D) ==
    IF D = {} THEN 1
    ELSE LET x == CHOOSE y \in D : TRUE
             m == LcmOver(p, D \ {x})
         IN (m * p[x].d) \div Gcd(m, p[x].d)

\* log_probs.masked_fill with a slip: the unmasked entries are normalised
\* again over the unmasked vocabulary.
masked_fill_logp_renormalised(log_probs, mask) ==
    LET L == LcmOver(log_probs, Vocab)
        w == Tensor([v \in Vocab |-> log_probs[v].n * (L \div log_probs[v].d)])
        total == SumOver(w, Vocab \ mask)
    IN Tensor([v \in Vocab |-> IF v \in mask THEN Rat(0, 1)
                               ELSE Norm(Rat(w[v], total))])

\* log_probs.masked_fill(mask, -inf) on log-probabilities: exp(-inf) = 0.
masked_fill_logp(log_probs, mask) ==
    Tensor([v \in Vocab |-> IF v \in mask THEN Rat(0, 1) ELSE log_probs[v]])

\* The log-probabilities of one row of forward_beam_search at a step:
\* log_softmax of the logits, then the destination mask.
beam_log_probs(logits, mask, constrain) ==
    IF constrain THEN masked_fill_logp(log_softmax(logits), mask)
    ELSE log_softmax(logits)

\* tensor.topk(K) over the entries I of the log-probabilities x: the K
\* largest entries, largest first, equal entries in index order; as a
\* function 0..K-1 -> I.
Rank(x, I, i) ==
    Cardinality({j \in I : Less(x[i], x[j]) \/ (~ Less(x[j], x[i]) /\ j < i)})

topk(x, I, K) ==
    Tensor([k \in 0 .. (K - 1) |-> CHOOSE i \in I : Rank(x, I, i) = k])

\* tensor.topk(K) over the entries I of the logits x.
RankLogits(x, I, i) ==
    Cardinality({j \in I : x[i] < x[j] \/ (x[j] = x[i] /\ j < i)})

topk_logits(x, I, K) ==
    Tensor([k \in 0 .. (K - 1) |-> CHOOSE i \in I : RankLogits(x, I, i) = k])

\* ---------------------------------------------------------------- scorer
\* The logit vectors a scorer may return: HotLogit on a set of tokens, 0 on
\* the rest.
HotLogit == 2
HotSets == {{DST_START},
            {TYPE_MOVE, DST_START, DST_START + 1},
            {TYPE_MOVE, TYPE_RETREAT, DST_START, DST_START + 1}}
Dist == {[v \in Vocab |-> IF v \in H THEN HotLogit ELSE 0] : H \in HotSets}

\* ---------------------------------------------------------------- state
VARIABLES
    units,      \* unit_indices[0]: province index per position, -1 = padding
    args,       \* the arguments of the call under way
    scorer,     \* the scorer, on the views queried so far
    calls,      \* number of decoder passes (_decode_step, teacher forcing) run
    pc,         \* position in the entry point under way
    step,       \* loop variable of the decode loop under way
    generated,  \* beam_generated / sample_generated / generated
    scores,     \* beam_scores / sample_scores
    beams,      \* what forward_beam_search returned
    samples,    \* what forward_topk_sampling returned
    out,        \* what the entry point returned
    prior       \* what the previous call of the entry point returned

vars == <<units, args, scorer, calls, pc, step, generated, scores,
          beams, samples, out, prior>>

NoReturn == [done |-> FALSE]

\* n_valid with a slip: the padded length of the unit list.
n_valid_padded == Cardinality(Positions)

valid_mask == [p \in Positions |-> units[p] >= 0]
n_valid == Cardinality({p \in Positions : valid_mask[p]})

ZeroRow == [p \in Positions |-> ZeroOrder]

\* The scorer extended by f on views not queried before.
Extend(f) == Tensor([view \in DOMAIN scorer \cup DOMAIN f |->
                        IF view \in DOMAIN scorer THEN scorer[view] ELSE f[view]])

\* ---------------------------------------------------------------- beam search
\* The batch assertion with a slip: any non-empty batch passes.
batch_size_any(batch) == batch >= 1

\* beam_width as forward_beam_search receives it.
BeamK == IF args.entry = "cand" THEN Min(args.beam_width, args.num_candidates)
         ELSE args.beam_width

\* The assert that opens forward_beam_search and forward_topk_sampling.
batch_size_ok(batch) == batch = 1

AfterBeam == IF args.entry = "cand" THEN "cand_sample" ELSE "done"

\* forward_beam_search up to the decode loop.
BeamCall ==
    /\ pc = "beam_call"
    /\ IF ~ batch_size_ok(args.batch)
       THEN /\ pc' = "error"
            /\ UNCHANGED <<step, generated, scores, beams>>
       ELSE IF n_valid = 0
       THEN /\ beams' = [done |-> TRUE,
                         best |-> ZeroRow,
                         all |-> [k \in 0 .. (BeamK - 1) |-> ZeroRow],
                         acc |-> <<>>]
            /\ pc' = AfterBeam
            /\ UNCHANGED <<step, generated, scores>>
       ELSE /\ generated' = [k \in 0 .. (BeamK - 1) |-> ZeroRow]
            /\ scores' = [k \in 0 .. (BeamK - 1) |-> One]
            /\ step' = 0
            /\ pc' = "beam_loop"
            /\ UNCHANGED beams
    /\ UNCHANGED <<units, args, scorer, calls, samples, out, prior>>

\* The write with a slip: the token is added one position early.
write_token_early(row, at, idx) ==
    [row EXCEPT ![Max(at - 1, 0)] = row[Max(at - 1, 0)] \cup one_hot(idx)]

\* The write of the chosen token into a row at `step`.
write_token(row, at, idx) == [row EXCEPT ![at] = one_hot(idx)]

\* The K smallest entries of x, smallest first.
RankSmallest(x, I, i) ==
    Cardinality({j \in I : Less(x[j], x[i]) \/ (~ Less(x[i], x[j]) /\ j < i)})

topk_smallest(x, I, K) ==
    Tensor([k \in 0 .. (K - 1) |-> CHOOSE i \in I : RankSmallest(x, I, i) = k])

\* beam_expand with a slip: topk keeps the K smallest entries.
beam_expand_smallest(logits, K) ==
    LET V == ORDER_VOCAB_SIZE
        rows == 0 .. (K - 1)
        log_probs == Tensor([k \in rows |->
            beam_log_probs(logits[k], build_destination_mask(generated[k], step),
                           args.constrain)])
    IN IF step = 0
       THEN LET top == topk_smallest(log_probs[0], Vocab, K)
            IN [gen |-> [k \in rows |-> write_token(generated[k], step, top[k])],
                acc |-> [k \in rows |-> log_probs[0][top[k]]]]
       ELSE LET flat == Tensor([i \in 0 .. (K * V - 1) |->
                            Plus(scores[i \div V], log_probs[i \div V][i % V])])
                topk_flat == topk_smallest(flat, 0 .. (K * V - 1), K)
                beam_idx == [k \in rows |-> topk_flat[k] \div V]
                token_idx == [k \in rows |-> topk_flat[k] % V]
            IN [gen |-> [k \in rows |->
                            write_token(generated[beam_idx[k]], step, token_idx[k])],
                acc |-> [k \in rows |-> flat[topk_flat[k]]]]

\* beam_expand with a slip: after step 0 every beam keeps its own best
\* extension instead of competing with the extensions of the other beams.
beam_expand_local(logits, K) ==
    LET rows == 0 .. (K - 1)
        log_probs == Tensor([k \in rows |->
            beam_log_probs(logits[k], build_destination_mask(generated[k], step),
                           args.constrain)])
    IN IF step = 0
       THEN LET top == topk(log_probs[0], Vocab, K)
            IN [gen |-> [k \in rows |-> write_token(generated[k], step, top[k])],
                acc |-> [k \in rows |-> log_probs[0][top[k]]]]
       ELSE LET best == Tensor([k \in rows |-> topk(log_probs[k], Vocab, 1)[0]])
            IN [gen |-> [k \in rows |-> write_token(generated[k], step, best[k])],
                acc |-> [k \in rows |-> Plus(scores[k], log_probs[k][best[k]])]]

\* beam_expand with a slip: the rebuilt rows are not copies, so survivors of
\* one parent share its storage and the last token written shows in all.
beam_expand_aliased(logits, K) ==
    LET V == ORDER_VOCAB_SIZE
        rows == 0 .. (K - 1)
        log_probs == Tensor([k \in rows |->
            beam_log_probs(logits[k], build_destination_mask(generated[k], step),
                           args.constrain)])
    IN IF step = 0
       THEN LET top == topk(log_probs[0], Vocab, K)
            IN [gen |-> [k \in rows |-> write_token(generated[k], step, top[k])],
                acc |-> [k \in rows |-> log_probs[0][top[k]]]]
       ELSE LET flat == Tensor([i \in 0 .. (K * V - 1) |->
                            Plus(scores[i \div V], log_probs[i \div V][i % V])])
                topk_flat == topk(flat, 0 .. (K * V - 1), K)
                beam_idx == [k \in rows |-> topk_flat[k] \div V]
                token_idx == [k \in rows |-> topk_flat[k] % V]
                last == [k \in rows |->
                            Max(k, CHOOSE l \in rows :
                                      /\ beam_idx[l] = beam_idx[k]
                                      /\ \A m \in rows :
                                            beam_idx[m] = beam_idx[k] => m <= l)]
            IN [gen |-> [k \in rows |->
                            write_token(generated[beam_idx[k]], step,
                                        token_idx[last[k]])],
                acc |-> [k \in rows |-> flat[topk_flat[k]]]]

\* One iteration of the loop of forward_beam_search, given the logits of
\* the K rows: the new (beam_generated, beam_scores).
beam_expand(logits, K) ==
    LET V == ORDER_VOCAB_SIZE
        rows == 0 .. (K - 1)
        log_probs == Tensor([k \in rows |->
            beam_log_probs(logits[k], build_destination_mask(generated[k], step),
                           args.constrain)])
    IN IF step = 0
       THEN LET top == topk(log_probs[0], Vocab, K)
            IN [gen |-> [k \in rows |-> write_token(generated[k], step, top[k])],
                acc |-> [k \in rows |-> log_probs[0][top[k]]]]
       ELSE LET flat == Tensor([i \in 0 .. (K * V - 1) |->
                            Plus(scores[i \div V], log_probs[i \div V][i % V])])
                topk_flat == topk(flat, 0 .. (K * V - 1), K)
                beam_idx == [k \in rows |-> topk_flat[k] \div V]
                token_idx == [k \in rows |-> topk_flat[k] % V]
            IN [gen |-> [k \in rows |->
                            write_token(generated[beam_idx[k]], step, token_idx[k])],
                acc |-> [k \in rows |-> flat[topk_flat[k]]]]

BeamStep ==
    /\ pc = "beam_loop"
    /\ step < n_valid
    /\ LET rows == 0 .. (BeamK - 1)
           view == Tensor([k \in rows |-> decode_step_view(units, generated[k], step)])
           fresh == {view[k] : k \in rows} \ DOMAIN scorer
       IN \E f \in [fresh -> Dist] :
            LET sc == Extend(f)
                nxt == beam_expand(Tensor([k \in rows |-> sc[view[k]]]), BeamK)
            IN /\ scorer' = sc
               /\ generated' = nxt.gen
               /\ scores' = nxt.acc
    /\ calls' = calls + 1
    /\ step' = step + 1
    /\ UNCHANGED <<units, args, pc, beams, samples, out, prior>>

\* The return with a slip: the last beam is handed out as the best.
BeamReturnLast ==
    /\ pc = "beam_loop"
    /\ step = n_valid
    /\ beams' = [done |-> TRUE, best |-> generated[BeamK - 1], all |-> generated,
                 acc |-> scores]
    /\ pc' = AfterBeam
    /\ UNCHANGED <<units, args, scorer, calls, step, generated, scores,
                   samples, out, prior>>

\* The return of forward_beam_search after the loop.
BeamReturn ==
    /\ pc = "beam_loop"
    /\ step = n_valid
    /\ beams' = [done |-> TRUE, best |-> generated[0], all |-> generated,
                 acc |-> scores]
    /\ pc' = AfterBeam
    /\ UNCHANGED <<units, args, scorer, calls, step, generated, scores,
                   samples, out, prior>>

\* The caller runs beam search again on the same position with a wider beam.
BeamAgain ==
    /\ pc = "done"
    /\ args.entry = "beam"
    /\ prior = NoReturn
    /\ \E K2 \in (args.beam_width + 1) .. MaxBeam :
          args' = [args EXCEPT !.beam_width = K2]
    /\ prior' = beams
    /\ beams' = NoReturn
    /\ calls' = 0
    /\ pc' = "beam_call"
    /\ UNCHANGED <<units, scorer, step, generated, scores, samples, out>>

\* ---------------------------------------------------------------- sampling
\* num_samples as forward_topk_sampling receives it.
SampleN == IF args.entry = "cand" THEN (args.num_candidates - BeamK) * 2
           ELSE args.num_samples

AfterSample == IF args.entry = "cand" THEN "cand_score" ELSE "done"

\* forward_topk_sampling up to the decode loop.
SampleCall ==
    /\ pc = "sample_call"
    /\ IF ~ batch_size_ok(args.batch)
       THEN /\ pc' = "error"
            /\ UNCHANGED <<step, generated, scores, samples>>
       ELSE IF n_valid = 0
       THEN /\ samples' = [done |-> TRUE,
                           seqs |-> [n \in 0 .. (SampleN - 1) |-> ZeroRow],
                           scores |-> [n \in 0 .. (SampleN - 1) |-> One]]
            /\ pc' = AfterSample
            /\ UNCHANGED <<step, generated, scores>>
       ELSE /\ generated' = [n \in 0 .. (SampleN - 1) |-> ZeroRow]
            /\ scores' = [n \in 0 .. (SampleN - 1) |-> One]
            /\ step' = 0
            /\ pc' = "sample_loop"
            /\ UNCHANGED samples
    /\ UNCHANGED <<units, args, scorer, calls, beams, out, prior>>

\* float32 exp(x * ln 2) is exactly 0 from x = -150 down.
EXP_UNDERFLOW == 149 + 1

\* The scaling with a slip: no division for a temperature of 0 or less.
scale_sampling_skip(l, temperature) ==
    IF l = NegInf THEN NegInf
    ELSE IF temperature >= 1 THEN l \div temperature
    ELSE l

\* logits / max(temperature, 1e-8); a logit is even and a positive
\* temperature is 1 or 2 here, so the quotient is exact.
scale_sampling(l, temperature) ==
    IF l = NegInf THEN NegInf
    ELSE IF temperature >= 1 THEN l \div temperature
    ELSE l * (100 * 1000 * 1000)

\* The top-k filter with a slip: the threshold is exclusive, so entries
\* equal to the top_k-th largest value are dropped as well.
topk_filter_exclusive(scaled, top_k) ==
    IF top_k > 0 /\ top_k < ORDER_VOCAB_SIZE
    THEN LET top_values == topk_logits(scaled, Vocab, top_k)
             threshold == scaled[top_values[top_k - 1]]
         IN masked_fill(scaled, {v \in Vocab : scaled[v] <= threshold})
    ELSE scaled

\* The top-k filter of forward_topk_sampling on one row of scaled logits.
topk_filter(scaled, top_k) ==
    IF top_k > 0 /\ top_k < ORDER_VOCAB_SIZE
    THEN LET top_values == topk_logits(scaled, Vocab, top_k)
             threshold == scaled[top_values[top_k - 1]]
         IN masked_fill(scaled, {v \in Vocab : scaled[v] < threshold})
    ELSE scaled

\* sample_log_probs with a slip: the log-probabilities are those of the
\* logits after the top-k filter.
sample_log_probs_filtered(logits, mask, constrain) ==
    LET masked == IF constrain THEN masked_fill(logits, mask) ELSE logits
    IN log_softmax(topk_filter(masked, args.top_k))

\* The log-probabilities of one row of forward_topk_sampling at a step: the
\* destination mask on the logits, then log_softmax.
sample_log_probs(logits, mask, constrain) ==
    log_softmax(IF constrain THEN masked_fill(logits, mask) ELSE logits)

\* The entries F.softmax gives a non-zero probability: those torch.multinomial
\* can draw.
softmax_support(scaled) ==
    LET top == scaled[ArgMaxOf(scaled, Vocab)]
    IN {v \in Vocab : scaled[v] # NegInf /\ top - scaled[v] < EXP_UNDERFLOW}

\* The logits of one row of the sampler after the destination constraint.
sample_logits(raw, row) ==
    IF args.constrain
    THEN masked_fill(raw, build_destination_mask(row, step))
    ELSE raw

\* The tokens one row of the sampler can draw at this step.
sample_choices(raw, row) ==
    LET logits == sample_logits(raw, row)
        scaled == Tensor([v \in Vocab |-> scale_sampling(logits[v], args.temperature)])
    IN softmax_support(topk_filter(scaled, args.top_k))

RECURSIVE DrawVectors(_, _)
\* All vectors sampled_idx with sampled_idx[n] in choices[n], n < N.
DrawVectors(choices, N) ==
    IF N = 0 THEN {<<>>}
    ELSE {[n \in 0 .. (N - 1) |-> IF n = N - 1 THEN v ELSE d[n]] :
            d \in DrawVectors(choices, N - 1), v \in choices[N - 1]}

SampleStep ==
    /\ pc = "sample_loop"
    /\ step < n_valid
    /\ LET rows == 0 .. (SampleN - 1)
           view == Tensor([n \in rows |-> decode_step_view(units, generated[n], step)])
           fresh == {view[n] : n \in rows} \ DOMAIN scorer
       IN \E f \in [fresh -> Dist] :
            LET sc == Extend(f)
                choices == Tensor([n \in rows |->
                              sample_choices(sc[view[n]], generated[n])])
            IN /\ scorer' = sc
               /\ IF \E n \in rows : choices[n] = {}
                  THEN \* softmax of an all -inf row is NaN: multinomial raises
                       /\ pc' = "error"
                       /\ UNCHANGED <<generated, scores>>
                  ELSE \E sampled_idx \in DrawVectors(choices, SampleN) :
                       /\ scores' = [n \in rows |->
                             Plus(scores[n],
                                  sample_log_probs(sc[view[n]],
                                      build_destination_mask(generated[n], step),
                                      args.constrain)[sampled_idx[n]])]
                       /\ generated' = [n \in rows |->
                             write_token(generated[n], step, sampled_idx[n])]
                       /\ pc' = pc
    /\ calls' = calls + 1
    /\ step' = step + 1
    /\ UNCHANGED <<units, args, beams, samples, out, prior>>

\* The return of forward_topk_sampling after the loop.
SampleReturn ==
    /\ pc = "sample_loop"
    /\ step = n_valid
    /\ samples' = [done |-> TRUE, seqs |-> generated, scores |-> scores]
    /\ pc' = AfterSample
    /\ UNCHANGED <<units, args, scorer, calls, step, generated, scores,
                   beams, out, prior>>

\* ---------------------------------------------------------------- greedy
\* forward_autoregressive up to the decode loop (one batch row).
GreedyCall ==
    /\ pc = "greedy_call"
    /\ generated' = ZeroRow
    /\ scores' = [p \in Positions |-> [v \in Vocab |-> 0]]
    /\ step' = 0
    /\ pc' = "greedy_loop"
    /\ UNCHANGED <<units, args, scorer, calls, beams, samples, out, prior>>

\* step_logits / temperature when temperature > 0, else step_logits.
scale_greedy(l, temperature) ==
    IF temperature > 0 THEN l \div temperature ELSE l

\* The token committed, with a slip: a repeated call breaks ties the other
\* way round.
greedy_pick_stateful(step_logits) ==
    LET scaled == Tensor([v \in Vocab |-> scale_greedy(step_logits[v], args.temperature)])
    IN IF prior.done
       THEN CHOOSE i \in Vocab : \A j \in Vocab :
                scaled[j] < scaled[i] \/ (scaled[j] = scaled[i] /\ j <= i)
       ELSE ArgMaxOf(scaled, Vocab)

\* The token greedy decoding commits for step_logits.
greedy_pick(step_logits) ==
    ArgMaxOf(Tensor([v \in Vocab |-> scale_greedy(step_logits[v], args.temperature)]),
             Vocab)

GreedyStep ==
    /\ pc = "greedy_loop"
    /\ step < MaxUnits
    /\ LET view == decode_step_view(units, generated, step)
       IN \E f \in [{view} \ DOMAIN scorer -> Dist] :
            LET sc == Extend(f)
            IN /\ scorer' = sc
               /\ scores' = [scores EXCEPT ![step] = sc[view]]
               /\ generated' = write_token(generated, step, greedy_pick(sc[view]))
    /\ calls' = calls + 1
    /\ step' = step + 1
    /\ UNCHANGED <<units, args, pc, beams, samples, out, prior>>

\* The return of forward_autoregressive: (generated, all_logits).
GreedyReturn ==
    /\ pc = "greedy_loop"
    /\ step = MaxUnits
    /\ out' = [done |-> TRUE, seqs |-> generated, logits |-> scores]
    /\ pc' = "done"
    /\ UNCHANGED <<units, args, scorer, calls, step, generated, scores,
                   beams, samples, prior>>

\* The caller decodes the same position once more.
GreedyAgain ==
    /\ pc = "done"
    /\ args.entry = "greedy"
    /\ prior = NoReturn
    /\ prior' = out
    /\ out' = NoReturn
    /\ calls' = 0
    /\ pc' = "greedy_call"
    /\ UNCHANGED <<units, args, scorer, step, generated, scores, beams, samples>>

\* ---------------------------------------------------------------- teacher forcing
\* forward_teacher_forcing for one row, under the scorer sc: the logits of
\* every position.
forward_teacher_forcing(sc, unit_indices, target_orders) ==
    [i \in Positions |-> sc[teacher_forcing_view(unit_indices, target_orders, i)]]

\* The logit vectors the scorer returns in a teacher-forced replay under test.
ReplayDist == {[v \in Vocab |-> IF v \in H THEN HotLogit ELSE 0] :
                  H \in {{TYPE_MOVE}, {DST_START}}}

\* A teacher-forced forward pass (DiplomacyAutoRegressivePolicyNet.forward
\* with target_orders).
TeacherForcingCall ==
    /\ pc = "tf_call"
    /\ LET fresh == {teacher_forcing_view(units, args.target_orders, i) :
                        i \in Positions} \ DOMAIN scorer
       IN \E f \in [fresh -> ReplayDist] :
            LET sc == Extend(f)
            IN /\ scorer' = sc
               /\ out' = [done |-> TRUE,
                          logits |-> forward_teacher_forcing(sc, units,
                                                             args.target_orders)]
    /\ calls' = calls + 1
    /\ pc' = "done"
    /\ UNCHANGED <<units, args, step, generated, scores, beams, samples, prior>>

\* The order vectors used as teacher-forcing targets: hold at 0, move from 0
\* to 1, and no order.
TargetOrders == {{0, NUM_TYPES}, {TYPE_MOVE, NUM_TYPES, DST_START + 1}, ZeroOrder}

\* The caller replays the same position with the target at one position
\* replaced.
TeacherForcingAgain ==
    /\ pc = "done"
    /\ args.entry = "tf"
    /\ prior = NoReturn
    /\ \E j \in Positions : \E order \in TargetOrders \ {args.target_orders[j]} :
          /\ args' = [args EXCEPT !.target_orders[j] = order]
          /\ prior' = [done |-> TRUE, logits |-> out.logits, changed |-> j,
                       target_orders |-> args.target_orders]
    /\ out' = NoReturn
    /\ calls' = 0
    /\ pc' = "tf_call"
    /\ UNCHANGED <<units, scorer, step, generated, scores, beams, samples>>

\* ---------------------------------------------------------------- candidates
\* generate_candidates up to its call of forward_beam_search.
CandCall ==
    /\ pc = "cand_call"
    /\ pc' = "beam_call"
    /\ UNCHANGED <<units, args, scorer, calls, step, generated, scores,
                   beams, samples, out, prior>>

\* Phase 2 of generate_candidates: sample when candidates remain to be found.
CandSample ==
    /\ pc = "cand_sample"
    /\ LET n_remaining == args.num_candidates - BeamK
       IN IF n_remaining > 0
          THEN /\ pc' = "sample_call"
               /\ UNCHANGED samples
          ELSE /\ samples' = [done |-> TRUE, seqs |-> <<>>, scores |-> <<>>]
               /\ pc' = "cand_score"
    /\ UNCHANGED <<units, args, scorer, calls, step, generated, scores,
                   beams, out, prior>>

\* torch.cat with a slip: the operands are swapped.
cat_swapped(a, na, b, nb) ==
    [i \in 0 .. (na + nb - 1) |-> IF i < nb THEN b[i] ELSE a[i - nb]]

\* torch.cat([a, b], dim=0) of na and nb rows.
cat(a, na, b, nb) == [i \in 0 .. (na + nb - 1) |-> IF i < na THEN a[i] ELSE b[i - na]]

\* The number of rows of a returned tensor.
Rows(t) == Cardinality(DOMAIN t)

\* The positions that count, with a slip: padding is not masked out.
score_positions_all == Positions

\* The positions that count in _score_candidates.
score_positions == {p \in Positions : units[p] >= 0}

\* _score_candidates for one candidate under the scorer sc: the sum over the
\* valid positions of the log-probability of the arg max token.
score_candidate(sc, candidate) ==
    LET target_idx == [p \in Positions |-> VecArgMax(candidate[p])]
        step_log_probs == Tensor([p \in Positions |->
            IF p \in score_positions
            THEN log_softmax(sc[teacher_forcing_view(units, candidate, p)])[target_idx[p]]
            ELSE One])
        RECURSIVE total(_)
        total(p) == IF p = MaxUnits THEN One
                    ELSE Plus(step_log_probs[p], total(p + 1))
    IN total(0)

\* The signature with a slip: the arg max is taken over the type section
\* only.
signature_by_type(candidate) ==
    [p \in Positions |-> SectionArgMax(candidate[p], 0, NUM_TYPES)]

\* tuple(all_candidates[i].argmax(dim=-1).tolist())
signature(candidate) == [p \in Positions |-> VecArgMax(candidate[p])]

RECURSIVE dedup_loop_forgetful(_, _, _, _, _)
\* The deduplication loop with a slip: the signature is never added to seen.
dedup_loop_forgetful(all_candidates, i, seen, unique_idx, num_candidates) ==
    IF i = Rows(all_candidates) THEN unique_idx
    ELSE LET sig == signature(all_candidates[i])
             is_new == sig \notin seen
             unique2 == IF is_new THEN Append(unique_idx, i) ELSE unique_idx
         IN IF Len(unique2) >= num_candidates THEN unique2
            ELSE dedup_loop_forgetful(all_candidates, i + 1, seen, unique2,
                                      num_candidates)

RECURSIVE dedup_loop_late_break(_, _, _, _, _)
\* The deduplication loop with a slip: the loop breaks one candidate late.
dedup_loop_late_break(all_candidates, i, seen, unique_idx, num_candidates) ==
    IF i = Rows(all_candidates) THEN unique_idx
    ELSE LET sig == signature(all_candidates[i])
             is_new == sig \notin seen
             unique2 == IF is_new THEN Append(unique_idx, i) ELSE unique_idx
         IN IF Len(unique2) > num_candidates THEN unique2
            ELSE dedup_loop_late_break(all_candidates, i + 1, seen \cup {sig}, unique2,
                                       num_candidates)

RECURSIVE dedup_loop_skip_first(_, _, _, _, _)
\* The deduplication loop with a slip: the candidate at index 0 is passed over.
dedup_loop_skip_first(all_candidates, i, seen, unique_idx, num_candidates) ==
    IF i = Rows(all_candidates) THEN unique_idx
    ELSE IF i = 0
    THEN dedup_loop_skip_first(all_candidates, 1, seen, unique_idx, num_candidates)
    ELSE LET sig == signature(all_candidates[i])
             is_new == sig \notin seen
             unique2 == IF is_new THEN Append(unique_idx, i) ELSE unique_idx
         IN IF Len(unique2) >= num_candidates THEN unique2
            ELSE dedup_loop_skip_first(all_candidates, i + 1, seen \cup {sig}, unique2,
                                       num_candidates)

RECURSIVE dedup_loop(_, _, _, _, _)
\* The deduplication loop of generate_candidates from index i on.
dedup_loop(all_candidates, i, seen, unique_idx, num_candidates) ==
    IF i = Rows(all_candidates) THEN unique_idx
    ELSE LET sig == signature(all_candidates[i])
             is_new == sig \notin seen
             unique2 == IF is_new THEN Append(unique_idx, i) ELSE unique_idx
         IN IF Len(unique2) >= num_candidates THEN unique2
            ELSE dedup_loop(all_candidates, i + 1, seen \cup {sig}, unique2,
                            num_candidates)

\* unique_idx as generate_candidates indexes with it, fallback included.
dedup(all_candidates, num_candidates) ==
    LET unique_idx == dedup_loop(all_candidates, 0, {}, <<>>, num_candidates)
    IN IF unique_idx = <<>> THEN <<0>> ELSE unique_idx

\* generate_candidates from the concatenation to its return.
CandFinish ==
    /\ pc = "cand_score"
    /\ LET all_candidates == Tensor(cat(beams.all, Rows(beams.all),
                                        samples.seqs, Rows(samples.seqs)))
           rows == DOMAIN all_candidates
           fresh == {teacher_forcing_view(units, all_candidates[i], p) :
                        i \in rows, p \in score_positions} \ DOMAIN scorer
       IN \E f \in [fresh -> ReplayDist] :
            LET sc == Extend(f)
                all_scores == Tensor([i \in rows |-> score_candidate(sc, all_candidates[i])])
                unique_idx == dedup(all_candidates, args.num_candidates)
            IN /\ scorer' = sc
               /\ out' = [done |-> TRUE,
                          seqs |-> [k \in 0 .. (Len(unique_idx) - 1) |->
                                       all_candidates[unique_idx[k + 1]]],
                          scores |-> [k \in 0 .. (Len(unique_idx) - 1) |->
                                       all_scores[unique_idx[k + 1]]],
                          all_candidates |-> all_candidates,
                          all_scores |-> all_scores,
                          unique_idx |-> unique_idx]
    /\ calls' = calls + 1
    /\ pc' = "done"
    /\ UNCHANGED <<units, args, step, generated, scores, beams, samples, prior>>

\* ---------------------------------------------------------------- calls
DefaultArgs == [entry |-> "beam", batch |-> 1, beam_width |-> 1,
                num_samples |-> 1, temperature |-> 1, top_k |-> 1,
                constrain |-> TRUE, num_candidates |-> 1, target_orders |-> <<>>]

\* The unit lists of a position: the units stand in distinct provinces and
\* are listed in ascending province order; -1 pads, at any position.
UnitLists ==
    {u \in [Positions -> (-1) .. (NUM_AREAS - 1)] :
        \A p, q \in Positions : (p < q /\ u[p] >= 0 /\ u[q] >= 0) => u[p] < u[q]}

NValid(u) == Cardinality({p \in Positions : u[p] >= 0})

BeamArgs == {[DefaultArgs EXCEPT !.batch = b, !.beam_width = K, !.constrain = c] :
                b \in 1 .. 2, K \in 1 .. MaxBeam, c \in BOOLEAN}

SampleArgs == {[DefaultArgs EXCEPT !.entry = "sample", !.batch = b, !.num_samples = N,
                               !.temperature = t, !.top_k = k, !.constrain = c] :
                  b \in 1 .. 2, N \in 1 .. MaxSamples, t \in Temperatures,
                  k \in TopKs, c \in BOOLEAN}

GreedyArgs == {[DefaultArgs EXCEPT !.entry = "greedy", !.temperature = t] :
                  t \in Temperatures}

TeacherForcingArgs == {[DefaultArgs EXCEPT !.entry = "tf", !.target_orders = t] :
                          t \in [Positions -> TargetOrders]}

CandArgs == {[DefaultArgs EXCEPT !.entry = "cand", !.batch = b, !.beam_width = K,
                             !.num_candidates = n] :
                b \in 1 .. 2, K \in 1 .. MaxBeam, n \in 1 .. MaxCandidates}

\* The padding of unit list u is trailing, as collate_fn pads.
PaddedAtEnd(u) == \A p, q \in Positions : (p < q /\ u[p] < 0) => u[q] < 0

\* num_samples as the sampler receives it in a call with arguments a.
SamplesOf(a) ==
    IF a.entry = "cand"
    THEN Max(0, a.num_candidates - Min(a.beam_width, a.num_candidates)) * 2
    ELSE a.num_samples
\* A draw ranges over the whole vocabulary: no top-1 filter, no degenerate
\* temperature.
WideDraw(a) == a.temperature >= 1 /\ a.top_k # 1

\* The calls explored: the tokens one call draws at random are bounded, and
\* a call that draws several samples is made on a unit list padded as
\* collate_fn pads.
Explored(u, a) ==
    \/ a.entry \notin {"sample", "cand"}
    \/ a.batch # 1
    \/ SamplesOf(a) = 0
    \/ /\ SamplesOf(a) > 1 => PaddedAtEnd(u)
       /\ a.entry = "sample" =>
              NValid(u) * SamplesOf(a) <= (IF WideDraw(a) THEN MaxWideDraws
                                          ELSE MaxDraws)
       /\ a.entry = "cand" =>
              \/ NValid(u) <= MaxSampledUnits
              \/ a.beam_width = 1 /\ NValid(u) * SamplesOf(a) <= MaxDraws

InitWith(argset, start) ==
    /\ units \in UnitLists
    /\ args \in {a \in argset : Explored(units, a)}
    /\ scorer = <<>>
    /\ calls = 0
    /\ pc = start
    /\ step = 0
    /\ generated = <<>>
    /\ scores = <<>>
    /\ beams = NoReturn
    /\ samples = NoReturn
    /\ out = NoReturn
    /\ prior = NoReturn

InitBeam == InitWith(BeamArgs, "beam_call")
NextBeam == BeamCall \/ BeamStep \/ BeamReturn \/ BeamAgain
SpecBeam == InitBeam /\ [][NextBeam]_vars

InitSample == InitWith(SampleArgs, "sample_call")
NextSample == SampleCall \/ SampleStep \/ SampleReturn
SpecSample == InitSample /\ [][NextSample]_vars

InitGreedy == InitWith(GreedyArgs, "greedy_call")
NextGreedy == GreedyCall \/ GreedyStep \/ GreedyReturn \/ GreedyAgain
SpecGreedy == InitGreedy /\ [][NextGreedy]_vars

InitTeacherForcing == InitWith(TeacherForcingArgs, "tf_call")
NextTeacherForcing == TeacherForcingCall \/ TeacherForcingAgain
SpecTeacherForcing == InitTeacherForcing /\ [][NextTeacherForcing]_vars

InitCand == InitWith(CandArgs, "cand_call")
NextCand == \/ CandCall \/ BeamCall \/ BeamStep \/ BeamReturn \/ CandSample
            \/ SampleCall \/ SampleStep \/ SampleReturn \/ CandFinish
SpecCand == InitCand /\ [][NextCand]_vars

\* The four decode entry points on unit lists with at most one valid unit.
InitEdge == /\ \/ InitWith(BeamArgs, "beam_call")
               \/ InitWith(SampleArgs, "sample_call")
               \/ InitWith(GreedyArgs, "greedy_call")
               \/ InitWith(CandArgs, "cand_call")
            /\ NValid(units) <= 1
NextEdge == \/ BeamCall \/ BeamStep \/ BeamReturn
            \/ SampleCall \/ SampleStep \/ SampleReturn
            \/ GreedyCall \/ GreedyStep \/ GreedyReturn
            \/ CandCall \/ CandSample \/ CandFinish
SpecEdge == InitEdge /\ [][NextEdge]_vars

\* ================================================================ claims
IsMovementTo(order, d) ==
    /\ TYPE_MOVE \in order \/ TYPE_RETREAT \in order
    /\ (DST_START + d) \in order

NoSharedDestination(seq) ==
    \A p, q \in Positions : \A d \in 0 .. (NUM_AREAS - 1) :
        (p < q /\ IsMovementTo(seq[p], d)) => ~ IsMovementTo(seq[q], d)

C2_CausalReplay ==
    (pc = "done" /\ args.entry = "tf" /\ prior.done) =>
        \A i \in Positions : i <= prior.changed => out.logits[i] = prior.logits[i]

\* A target was replaced, the replay ran again, and the logits of a later
\* position did change.
C2_Witness ==
    /\ pc = "done" /\ args.entry = "tf" /\ prior.done
    /\ \E i \in Positions : i > prior.changed /\ out.logits[i] # prior.logits[i]

\* C3 as claimed: the best beam of a wider search scores at least as high as
\* the best beam of the narrower search, for any number of valid units.
C3_AsClaimed ==
    (pc = "done" /\ args.entry = "beam" /\ prior.done /\ n_valid > 0) =>
        Leq(prior.acc[0], beams.acc[0])

\* C3 amended: with at most two valid units, the best beam of a wider search
\* scores at least as high as the best beam of the narrower search.
C3_WiderBeamTwoUnits ==
    (pc = "done" /\ args.entry = "beam" /\ prior.done /\ n_valid \in {1, 2}) =>
        Leq(prior.acc[0], beams.acc[0])

\* On two valid units the wider search returned a strictly better best beam.
C3_Witness ==
    /\ pc = "done" /\ args.entry = "beam" /\ prior.done /\ n_valid = 2
    /\ Less(prior.acc[0], beams.acc[0])

ZeroRows(t) == \A k \in DOMAIN t : t[k] = ZeroRow
ZeroScores(t) == \A k \in DOMAIN t : t[k] = One

\* C4 as claimed: with no valid unit every decode entry point returns
\* all-zero sequences and score 0 and runs no decoder pass.
C4_AsClaimed ==
    (pc = "done" /\ NValid(units) = 0) =>
        /\ calls = 0
        /\ args.entry = "beam" => ZeroRows(beams.all)
        /\ args.entry = "sample" => ZeroRows(samples.seqs) /\ ZeroScores(samples.scores)
        /\ args.entry = "greedy" => out.seqs = ZeroRow
        /\ args.entry = "cand" => ZeroRows(out.seqs) /\ ZeroScores(out.scores)

\* C4 amended: with no valid unit, forward_beam_search and
\* forward_topk_sampling return all-zero sequences (the sampler scores 0) from
\* their entry, without a decoder pass; generate_candidates returns one
\* all-zero candidate with score 0 and runs the one rescoring pass; greedy
\* decoding has no such case and decodes every position.
C4_NoValidUnits ==
    (NValid(units) = 0) =>
        /\ args.entry # "greedy" => pc \notin {"beam_loop", "sample_loop"}
        /\ beams.done => /\ ZeroRows(beams.all) /\ beams.best = ZeroRow
                         /\ Rows(beams.all) = BeamK
                         /\ step = 0
                         /\ (pc # "done" \/ args.entry = "beam") => calls = 0
        /\ samples.done => /\ ZeroRows(samples.seqs) /\ ZeroScores(samples.scores)
                           /\ step = 0
                           /\ (pc # "done" \/ args.entry = "sample") => calls = 0
                           /\ args.entry = "sample" => Rows(samples.seqs) = SampleN
        /\ (pc = "done" /\ args.entry = "cand") =>
               /\ Rows(out.seqs) = 1
               /\ ZeroRows(out.seqs) /\ ZeroScores(out.scores)
               /\ calls = 1
        /\ (pc = "done" /\ args.entry = "greedy") =>
               /\ calls = MaxUnits
               /\ \A p \in Positions : Cardinality(out.seqs[p]) = 1

\* generate_candidates has returned for a unit list without a valid unit.
C4_Witness ==
    /\ NValid(units) = 0 /\ pc = "done" /\ args.entry = "cand"
    /\ beams.done /\ samples.done /\ Rows(samples.seqs) > 0

CandDone == pc = "done" /\ args.entry = "cand"
AllRows == DOMAIN out.all_candidates
Returned == {out.unique_idx[k] : k \in 1 .. Len(out.unique_idx)}
Sig(i) == signature(out.all_candidates[i])
Group(i) == {j \in AllRows : Sig(j) = Sig(i)}
IsFirst(i) == \A j \in Group(i) : i <= j
SigsBefore(i) == {Sig(j) : j \in {j \in AllRows : j < i}}
OrderKept == \A k, l \in 1 .. Len(out.unique_idx) :
                 k < l => out.unique_idx[k] < out.unique_idx[l]

\* C5 as claimed: of the candidates that share a signature exactly one is
\* returned, the first in concatenation order, and kept candidates stay in
\* concatenation order.
C5_AsClaimed ==
    CandDone =>
        /\ \A i \in AllRows : Cardinality(Group(i)) >= 2 =>
               \E j \in Group(i) : IsFirst(j) /\ Group(i) \cap Returned = {j}
        /\ OrderKept

\* C5 amended: of the candidates that share a signature only the first in
\* concatenation order can be returned, and it is returned exactly when
\* fewer than num_candidates distinct signatures precede it; kept candidates
\* stay in concatenation order.
C5_FirstOccurrence ==
    CandDone =>
        /\ \A i \in AllRows :
              /\ i \in Returned => IsFirst(i)
              /\ IsFirst(i) => (i \in Returned <=>
                                   Cardinality(SigsBefore(i)) < args.num_candidates)
        /\ OrderKept

\* Two candidates share a signature, the first of them is returned and the
\* second is dropped.
C5_Witness ==
    /\ CandDone
    /\ \E i, j \in AllRows : /\ i < j /\ Sig(i) = Sig(j)
                             /\ i \in Returned /\ j \notin Returned

Distinct == Cardinality({Sig(i) : i \in AllRows})

\* C6: generate_candidates returns min(num_candidates, U) candidates and as
\* many scores, U being the number of distinct signatures generated.
C6_OutputSize ==
    CandDone =>
        /\ Rows(out.seqs) = Min(args.num_candidates, Distinct)
        /\ Rows(out.scores) = Min(args.num_candidates, Distinct)

\* Deduplication left fewer candidates than were asked for.
C6_Witness ==
    /\ CandDone
    /\ Distinct < args.num_candidates /\ Distinct < Rows(out.all_candidates)
    /\ Rows(out.seqs) = Distinct

RECURSIVE Rescored(_, _)
\* The sum, over the valid positions from p on, of the log-probability the
\* scorer gives the token of candidate c at the position, the scorer having
\* seen the earlier tokens of c.
Rescored(c, p) ==
    IF p = MaxUnits THEN One
    ELSE IF units[p] < 0 THEN Rescored(c, p + 1)
    ELSE Plus(log_softmax(scorer[decode_step_view(units, c, p)])[VecArgMax(c[p])],
              Rescored(c, p + 1))

\* C7: each returned score is the teacher-forced rescoring of the candidate
\* at the same index: the sum over the valid positions only of the
\* log-probability of the candidate's token; the accumulators of beam search
\* and of the sampler are not what is returned.
C7_Rescoring ==
    CandDone =>
        /\ DOMAIN out.scores = DOMAIN out.seqs
        /\ \A k \in DOMAIN out.seqs : out.scores[k] = Rescored(out.seqs[k], 0)

\* A returned beam candidate whose returned score is not the score beam
\* search accumulated for it.
C7_Witness ==
    /\ CandDone /\ n_valid > 0
    /\ \E k \in DOMAIN out.seqs :
          /\ k \in DOMAIN beams.acc
          /\ out.seqs[k] = beams.all[k]
          /\ out.scores[k] # beams.acc[k]

\* C8 as claimed: the returned scores are non-increasing.
C8_AsClaimed ==
    CandDone => \A k, l \in DOMAIN out.scores :
                    k < l => Leq(out.scores[l], out.scores[k])

TrailingPadding == PaddedAtEnd(units)
FromBeam(k) == out.unique_idx[k + 1] < Rows(beams.all)

\* C8 amended: the returned list is in concatenation order (beam candidates,
\* then sampled ones), and the returned scores are non-increasing among the
\* beam candidates when all padding of the unit list is trailing.
C8_ConcatenationOrder ==
    CandDone =>
        /\ OrderKept
        /\ \A k \in DOMAIN out.seqs :
               LET i == out.unique_idx[k + 1]
               IN out.seqs[k] = IF i < Rows(beams.all) THEN beams.all[i]
                                ELSE samples.seqs[i - Rows(beams.all)]
        /\ TrailingPadding =>
               \A k, l \in DOMAIN out.scores :
                   (k < l /\ FromBeam(l)) => Leq(out.scores[l], out.scores[k])

\* On a unit list with trailing padding two beam candidates were returned,
\* the first with the strictly higher score.
C8_Witness ==
    /\ CandDone /\ TrailingPadding /\ n_valid > 0
    /\ \E k, l \in DOMAIN out.scores :
          /\ k < l /\ FromBeam(l)
          /\ Less(out.scores[l], out.scores[k])

\* C9: forward_beam_search and forward_topk_sampling on a batch of size
\* other than 1 end in an error before the scorer is called and before any
\* state of the search is built.
C9_BatchOfOne ==
    args.batch # 1 =>
        /\ pc \in {"beam_call", "sample_call", "error"}
        /\ calls = 0 /\ DOMAIN scorer = {}
        /\ generated = <<>> /\ scores = <<>>
        /\ ~ beams.done /\ ~ samples.done

\* The sampler has refused a batch of two.
C9_Witness == pc = "error" /\ args.batch = 2 /\ args.entry = "sample"

ORDER_TYPES == <<"hold", "move", "support", "convoy", "retreat", "build", "disband">>
ORDER_TYPE_INDEX(t) == (CHOOSE k \in 1 .. Len(ORDER_TYPES) : ORDER_TYPES[k] = t) - 1

\* No destination in a parsed or decoded order.
NoDst == 0 - 1

\* The order strings: "<unit> <src>[/coast] <action> <dst>[/coast]"; a
\* province is named by its area index, a coast by a suffix parse_order cuts.
OrderStrings == [unit : {"A", "F"}, src : 0 .. (NUM_AREAS - 1), src_coast : {"", "nc"},
                 action : {"H", "-", "S", "C", "R", "B", "D"},
                 dst : 0 .. (NUM_AREAS - 1), dst_coast : {"", "sc"}]

\* parse_order for a string of four or more tokens: type, source province
\* and, for moves and retreats, destination province.
parse_order(o) ==
    LET type == CASE o.action = "H" -> "hold"
                  [] o.action = "-" -> "move"
                  [] o.action = "S" -> "support"
                  [] o.action = "C" -> "convoy"
                  [] o.action = "R" -> "retreat"
                  [] o.action = "B" -> "build"
                  [] o.action = "D" -> "disband"
    IN [type |-> type, src |-> o.src,
        dst |-> IF type \in {"move", "retreat"} THEN o.dst ELSE NoDst]

\* encode_order_label with a slip: the destination bit lands in the source
\* section.
encode_order_label_dst_offset(o) ==
    LET parsed == parse_order(o)
    IN {ORDER_TYPE_INDEX(parsed.type)}
       \cup {NUM_TYPES + parsed.src}
       \cup (IF parsed.dst # NoDst THEN {NUM_TYPES + parsed.dst} ELSE {})

\* encode_order_label: the type bit, the source bit and, when the parsed
\* order has a destination, the destination bit.
encode_order_label(o) ==
    LET parsed == parse_order(o)
    IN {ORDER_TYPE_INDEX(parsed.type)}
       \cup {NUM_TYPES + parsed.src}
       \cup (IF parsed.dst # NoDst THEN {DST_START + parsed.dst} ELSE {})

\* The reading of an order vector: the arg max of the type, source and
\* destination sections, the destination only when a destination bit is set.
decode_order(order_vec) ==
    LET has_dst == \E v \in order_vec : v >= DST_START
    IN [type |-> ORDER_TYPES[SectionArgMax(order_vec, 0, NUM_TYPES) + 1],
        src |-> SectionArgMax(order_vec, NUM_TYPES, NUM_TYPES + NUM_AREAS),
        dst |-> IF has_dst
                THEN SectionArgMax(order_vec, NUM_TYPES + NUM_AREAS, ORDER_VOCAB_SIZE)
                ELSE NoDst]

NoUnits == [p \in Positions |-> 0 - 1]

\* An order string is encoded and the vector read back.
EncodeOrder ==
    /\ pc = "encode_call"
    /\ \E o \in OrderStrings :
          out' = [done |-> TRUE, order |-> o, vec |-> encode_order_label(o),
                  decoded |-> decode_order(encode_order_label(o))]
    /\ UNCHANGED <<units, args, scorer, calls, pc, step, generated, scores,
                   beams, samples, prior>>

InitVocab ==
    /\ units = NoUnits
    /\ args = [DefaultArgs EXCEPT !.entry = "encode"]
    /\ scorer = <<>> /\ calls = 0 /\ pc = "encode_call" /\ step = 0
    /\ generated = <<>> /\ scores = <<>>
    /\ beams = NoReturn /\ samples = NoReturn /\ out = NoReturn /\ prior = NoReturn
NextVocab == EncodeOrder
SpecVocab == InitVocab /\ [][NextVocab]_vars

\* ---------------------------------------------------------------- dataset
\* The order labels one stored sample can hold at a position: the encoding
\* of a hold or of a move, or no order.
StoredOrders ==
    {encode_order_label([unit |-> "A", src |-> s, src_coast |-> "", action |-> a,
                         dst |-> (s + 1) % NUM_AREAS, dst_coast |-> ""]) :
        s \in 0 .. (NUM_AREAS - 1), a \in {"H", "-"}} \cup {ZeroOrder}

\* DiplomacyDataset.__getitem__: the unit index of a position is the arg max
\* of the source section of its order label, -1 without a source bit; the
\* order labels are returned as stored.
getitem_unit_indices(order_labels) ==
    [p \in Positions |->
        LET has_src == \E v \in order_labels[p] : NUM_TYPES <= v /\ v < DST_START
        IN IF has_src
           THEN SectionArgMax(order_labels[p], NUM_TYPES, NUM_TYPES + NUM_AREAS)
           ELSE 0 - 1]

GetItem ==
    /\ pc = "getitem_call"
    /\ out' = [done |-> TRUE, order_labels |-> args.target_orders,
               unit_indices |-> getitem_unit_indices(args.target_orders)]
    /\ units' = getitem_unit_indices(args.target_orders)
    /\ pc' = "done"
    /\ UNCHANGED <<args, scorer, calls, step, generated, scores, beams, samples, prior>>

InitDataset ==
    /\ units = NoUnits
    /\ args \in {[DefaultArgs EXCEPT !.entry = "getitem", !.target_orders = t] :
                    t \in [Positions -> StoredOrders]}
    /\ scorer = <<>> /\ calls = 0 /\ pc = "getitem_call" /\ step = 0
    /\ generated = <<>> /\ scores = <<>>
    /\ beams = NoReturn /\ samples = NoReturn /\ out = NoReturn /\ prior = NoReturn
NextDataset == GetItem
SpecDataset == InitDataset /\ [][NextDataset]_vars

\* C11 as claimed: the valid entries of the unit_indices DiplomacyDataset
\* returns are in ascending order, and the order label at each valid position
\* has the source bit of the unit at that position.
C11_AsClaimed ==
    (pc = "done" /\ args.entry = "getitem") =>
        /\ \A p, q \in Positions :
              (p < q /\ out.unit_indices[p] >= 0 /\ out.unit_indices[q] >= 0)
                  => out.unit_indices[p] <= out.unit_indices[q]
        /\ \A p \in Positions : out.unit_indices[p] >= 0 =>
              (NUM_TYPES + out.unit_indices[p]) \in out.order_labels[p]

\* A sample stored with descending source provinces has been returned.
C11_Witness ==
    /\ pc = "done" /\ args.entry = "getitem"
    /\ \E p, q \in Positions : p < q /\ out.unit_indices[q] >= 0
                               /\ out.unit_indices[p] > out.unit_indices[q]

\* C12: encoding an order and reading the vector back recovers the type and
\* the source province, no destination for an order without one, and the
\* destination province of a move or retreat.
C12_RoundTrip ==
    (out.done /\ args.entry = "encode") =>
        /\ out.decoded.type = parse_order(out.order).type
        /\ out.decoded.src = out.order.src
        /\ out.order.action \in {"-", "R"} => out.decoded.dst = out.order.dst
        /\ out.order.action \notin {"-", "R"} => out.decoded.dst = NoDst
        /\ Cardinality(out.vec) = (IF out.order.action \in {"-", "R"} THEN 3 ELSE 2)

\* A move from the last province to province 0 was encoded and read back.
C12_Witness ==
    /\ out.done /\ args.entry = "encode"
    /\ out.order.action = "-" /\ out.order.src = NUM_AREAS - 1 /\ out.order.dst = 0
    /\ out.decoded = [type |-> "move", src |-> NUM_AREAS - 1, dst |-> 0]

IsOneHot(order) == Cardinality(order) = 1 /\ order \subseteq Vocab

\* C13: every order vector forward_autoregressive has written, at every
\* step, is one-hot over the whole vocabulary.
C13_GreedyOneHot ==
    args.entry = "greedy" =>
        /\ pc = "greedy_loop" =>
               \A p \in Positions : p < step => IsOneHot(generated[p])
        /\ out.done => \A p \in Positions : IsOneHot(out.seqs[p])

\* Greedy decoding has returned for a unit list with padding, a one-hot
\* token at the padded position too.
C13_Witness ==
    /\ args.entry = "greedy" /\ out.done /\ pc = "done"
    /\ \E p \in Positions : units[p] < 0 /\ IsOneHot(out.seqs[p])
    /\ \E p, q \in Positions : out.seqs[p] # out.seqs[q]

NonIncreasing(acc) == \A k, l \in DOMAIN acc : k < l => Leq(acc[l], acc[k])

\* C14: in forward_beam_search the cumulative scores are non-increasing in
\* beam index after every step, and the primary result is beam 0 of the
\* returned beam set, whose score no other returned beam exceeds.
C14_BeamsSorted ==
    args.entry = "beam" =>
        /\ pc = "beam_loop" => NonIncreasing(scores)
        /\ beams.done =>
              /\ beams.best = beams.all[0]
              /\ NonIncreasing(beams.acc)
              /\ \A k \in DOMAIN beams.acc : Leq(beams.acc[k], beams.acc[0])

\* Beam search of width two over two or more units has returned two beams,
\* the second with the strictly lower score.
C14_Witness ==
    /\ args.entry = "beam" /\ beams.done /\ n_valid >= 2
    /\ args.beam_width = 2
    /\ Less(beams.acc[1], beams.acc[0])
    /\ beams.all[1] # beams.all[0]

\* Greedy decoding, beam search and single-sample filtered sampling, each on
\* every unit list.
InitSteps == \/ InitWith(BeamArgs, "beam_call")
             \/ InitWith(GreedyArgs, "greedy_call")
             \/ /\ InitWith(SampleArgs, "sample_call")
                /\ args.num_samples = 1 /\ ~ WideDraw(args)
NextSteps == \/ BeamCall \/ BeamStep \/ BeamReturn
             \/ GreedyCall \/ GreedyStep \/ GreedyReturn
             \/ SampleCall \/ SampleStep \/ SampleReturn
SpecSteps == InitSteps /\ [][NextSteps]_vars

\* C15 as claimed: every decode call runs at most n_valid decoder steps and
\* none of them at a padding position.
C15_AsClaimed ==
    /\ calls <= NValid(units)
    /\ (pc = "beam_loop" /\ step < n_valid) => units[step] >= 0
    /\ (pc = "sample_loop" /\ step < n_valid) => units[step] >= 0
    /\ (pc = "greedy_loop" /\ step < MaxUnits) => units[step] >= 0

\* C15 amended: every decode call ends (each pass of a loop raises step, and
\* step never passes the bound at which the loop returns); forward_beam_search and
\* forward_topk_sampling run n_valid decoder steps, at positions
\* 0..n_valid-1, which are the units when the padding is trailing; greedy
\* decoding runs one step for every position of the list, padding included.
C15_StepCount ==
    /\ pc \in {"beam_call", "beam_loop", "sample_call", "sample_loop",
               "greedy_call", "greedy_loop", "done", "error"}
    /\ args.entry \in {"beam", "sample"} =>
          /\ calls <= NValid(units) /\ step <= NValid(units)
          /\ pc \in {"beam_loop", "sample_loop"} => calls = step
          /\ pc = "done" => calls = NValid(units)
          /\ (PaddedAtEnd(units) /\ pc \in {"beam_loop", "sample_loop"}
                /\ step < NValid(units)) => units[step] >= 0
    /\ args.entry = "greedy" =>
          /\ calls <= MaxUnits /\ step <= MaxUnits
          /\ pc = "greedy_loop" => calls = step
          /\ pc = "done" => calls = MaxUnits

\* Beam search has ended after one step per unit on a list whose first
\* position is padding.
C15_Witness ==
    /\ args.entry = "beam" /\ pc = "done"
    /\ units[0] < 0 /\ NValid(units) >= 2 /\ calls = NValid(units)

\* What the deduplication loop itself selected, before the fallback.
LoopSelected == dedup_loop(out.all_candidates, 0, {}, <<>>, args.num_candidates)

\* C16: generate_candidates never returns an empty result; were the
\* deduplication loop to select nothing, the single candidate at index 0
\* would be returned with its score, and only for a unit list without units.
\* The loop in fact always selects the candidate at index 0.
C16_NeverEmpty ==
    CandDone =>
        /\ Rows(out.seqs) >= 1 /\ Rows(out.scores) = Rows(out.seqs)
        /\ out.seqs[0] = out.all_candidates[0]
        /\ out.scores[0] = out.all_scores[0]
        /\ LoopSelected # <<>> /\ LoopSelected[1] = 0
        /\ LoopSelected = <<>> => (NValid(units) = 0 /\ out.unique_idx = <<0>>)

\* generate_candidates has returned for a unit list without units: one
\* candidate, the all-zero one at index 0, although several were generated.
C16_Witness ==
    /\ CandDone /\ NValid(units) = 0
    /\ Rows(out.all_candidates) >= 2
    /\ Rows(out.seqs) = 1 /\ out.seqs[0] = ZeroRow /\ out.unique_idx = <<0>>

\* The raw logits row n of the decode under way was given at the last step.
LastLogits(row) == scorer[decode_step_view(units, row, step - 1)]
Stepped(loop) == pc = loop /\ step > 0 /\ args.temperature <= 0
IsMaximal(x, v, I) == v \in I /\ \A w \in I : x[w] <= x[v]

\* C17 as claimed: with a temperature of 0 or less greedy decoding and the
\* sampler both select on the raw scores, the scaling division skipped.
C17_AsClaimed ==
    /\ (args.entry = "greedy" /\ Stepped("greedy_loop")) =>
          \A v \in Vocab :
              scale_greedy(scores[step - 1][v], args.temperature) = scores[step - 1][v]
    /\ (args.entry = "sample" /\ Stepped("sample_loop")) =>
          \A n \in DOMAIN generated : \A v \in Vocab :
              scale_sampling(LastLogits(generated[n])[v], args.temperature)
                  = LastLogits(generated[n])[v]

\* C17 amended: with a temperature of 0 or less greedy decoding takes the
\* arg max of the raw scores; forward_topk_sampling divides by 1e-8 instead,
\* and then draws only an entry that is maximal among the unmasked ones.
C17_DegenerateTemperature ==
    /\ (args.entry = "greedy" /\ Stepped("greedy_loop")) =>
          /\ generated[step - 1] = one_hot(ArgMaxOf(scores[step - 1], Vocab))
          /\ scores[step - 1] = LastLogits(generated)
    /\ (args.entry = "sample" /\ Stepped("sample_loop")) =>
          \A n \in DOMAIN generated :
              \E v \in Vocab :
                 /\ generated[n][step - 1] = one_hot(v)
                 /\ IsMaximal(LastLogits(generated[n]), v,
                              Vocab \ build_destination_mask(generated[n], step - 1))

\* The sampler has drawn at temperature 0 without a top-k filter, from raw
\* scores that are not all equal.
C17_Witness ==
    /\ args.entry = "sample" /\ Stepped("sample_loop") /\ args.top_k = 0
    /\ \E v, w \in Vocab : LastLogits(generated[0])[v] < LastLogits(generated[0])[w]

\* ---------------------------------------------------------------- destination mask calls
\* The orders a generated row can hold when _build_destination_mask is
\* called: encoded order labels of every type that has a string form here,
\* the zero vector of padding, and a committed one-hot destination token.
MaskOrders ==
    {encode_order_label([unit |-> "A", src |-> 0, src_coast |-> "", action |-> a,
                         dst |-> d, dst_coast |-> ""]) :
        a \in {"H", "-", "S", "R"}, d \in 0 .. (NUM_AREAS - 1)}
    \cup {ZeroOrder, one_hot(DST_START + 1)}

\* The rows a second call puts beside the first row.
OtherRows == {[p \in Positions |-> o] : o \in MaskOrders}

\* _build_destination_mask(generated, step) over a batch of two rows.
BuildMask ==
    /\ pc = "mask_call"
    /\ out' = [done |-> TRUE,
               mask |-> [b \in DOMAIN generated |->
                            build_destination_mask(generated[b], step)]]
    /\ pc' = "done"
    /\ UNCHANGED <<units, args, scorer, calls, step, generated, scores, beams,
                   samples, prior>>

\* The same call with another second row.
MaskAgain ==
    /\ pc = "done" /\ args.entry = "mask" /\ prior = NoReturn
    /\ \E r \in OtherRows : generated' = [generated EXCEPT ![1] = r]
    /\ prior' = out /\ out' = NoReturn /\ pc' = "mask_call"
    /\ UNCHANGED <<units, args, scorer, calls, step, scores, beams, samples>>

InitMask ==
    /\ units = NoUnits
    /\ args = [DefaultArgs EXCEPT !.entry = "mask", !.batch = 2]
    /\ scorer = <<>> /\ calls = 0 /\ pc = "mask_call"
    /\ step \in 0 .. MaxUnits
    /\ generated \in {[b \in 0 .. 1 |-> IF b = 0 THEN r ELSE ZeroRow] :
                         r \in [Positions -> MaskOrders]}
    /\ scores = <<>>
    /\ beams = NoReturn /\ samples = NoReturn /\ out = NoReturn /\ prior = NoReturn
NextMask == BuildMask \/ MaskAgain
SpecMask == InitMask /\ [][NextMask]_vars

\* The destinations claimed in a row before a step: d is claimed when an
\* earlier position reads as a move or a retreat with destination d.
ClaimedBefore(row, i) ==
    {d \in 0 .. (NUM_AREAS - 1) :
        \E s \in 0 .. (i - 1) :
           /\ decode_order(row[s]).type \in {"move", "retreat"}
           /\ decode_order(row[s]).dst = d}

\* C18: the mask _build_destination_mask returns for a row at step i is
\* exactly the destination-slot indices DST_START + d of the destinations d
\* that a move or retreat at an earlier step of that row claims; it is empty
\* at step 0, holds no type or source index, takes nothing from orders of
\* other types, and the mask of a row does not change with the other row.
C18_DestinationMask ==
    (pc = "done" /\ args.entry = "mask") =>
        /\ \A b \in DOMAIN generated :
              /\ out.mask[b] = {DST_START + d : d \in ClaimedBefore(generated[b], step)}
              /\ \A v \in out.mask[b] : DST_START <= v /\ v < ORDER_VOCAB_SIZE
        /\ step = 0 => \A b \in DOMAIN generated : out.mask[b] = {}
        /\ prior # NoReturn => out.mask[0] = prior.mask[0]

\* Witness for C18: a second call whose first row claimed two destinations
\* before the step and also holds an order of another type there, while the
\* second row now claims a destination of its own.
C18_Witness ==
    /\ pc = "done" /\ args.entry = "mask" /\ prior # NoReturn
    /\ Cardinality(out.mask[0]) = 2
    /\ \E s \in 0 .. (step - 1) :
          decode_order(generated[0][s]).type \notin {"move", "retreat"}
    /\ out.mask[1] # {} /\ out.mask[1] # out.mask[0]

\* ---------------------------------------------------------------- constrained step
\* The destination constraint of one step of forward_beam_search, on one row
\* with the prefix generated[0] and the logits scores.
ConstrainBeam ==
    /\ pc = "constrain_call" /\ args.entry = "beam_constrain"
    /\ LET dst_mask == build_destination_mask(generated[0], step)
       IN out' = [done |-> TRUE, mask |-> dst_mask,
                  log_probs |-> beam_log_probs(scores, dst_mask, args.constrain)]
    /\ pc' = "done"
    /\ UNCHANGED <<units, args, scorer, calls, step, generated, scores, beams,
                   samples, prior>>

\* The destination constraint of one step of forward_topk_sampling, on one
\* row with the prefix generated[0] and the logits scores.
ConstrainSample ==
    /\ pc = "constrain_call" /\ args.entry = "sample_constrain"
    /\ LET dst_mask == build_destination_mask(generated[0], step)
       IN out' = [done |-> TRUE, mask |-> dst_mask,
                  log_probs |-> sample_log_probs(scores, dst_mask, args.constrain)]
    /\ pc' = "done"
    /\ UNCHANGED <<units, args, scorer, calls, step, generated, scores, beams,
                   samples, prior>>

InitConstrain ==
    /\ units = NoUnits
    /\ args \in {[DefaultArgs EXCEPT !.entry = e] :
                    e \in {"beam_constrain", "sample_constrain"}}
    /\ scorer = <<>> /\ calls = 0 /\ pc = "constrain_call"
    /\ step \in 0 .. MaxUnits
    /\ generated \in {[b \in 0 .. 0 |-> r] : r \in [Positions -> MaskOrders]}
    /\ scores \in Dist
    /\ beams = NoReturn /\ samples = NoReturn /\ out = NoReturn /\ prior = NoReturn
NextConstrain == ConstrainBeam \/ ConstrainSample
SpecConstrain == InitConstrain /\ [][NextConstrain]_vars

\* The softmax of the logits over the vocabulary entries I.
SoftmaxOver(logits, I, v) ==
    Norm(Rat(Exp2(logits[v]),
             SumOver([u \in Vocab |-> Exp2(logits[u])], I)))

ConstrainDone == pc = "done" /\ args.entry \in {"beam_constrain", "sample_constrain"}

ExtensionScore(sc, k, v) ==
    Plus(scores[k],
         beam_log_probs(sc[decode_step_view(units, generated[k], step)],
                        build_destination_mask(generated[k], step),
                        args.constrain)[v])

\* The beams that are extended at the step under way: beam 0 alone at step 0.
Parents == IF step = 0 THEN {0} ELSE 0 .. (BeamK - 1)

\* C20: every step of forward_beam_search keeps a global top-K: each of the
\* K surviving beams is a parent beam with one token appended and scores the
\* parent's cumulative score plus the token's masked log-probability from the
\* parent's own prefix; the K survivors are K different extensions; and no
\* extension that was dropped scores strictly higher than a survivor. At
\* step 0 the only parent is beam 0.
C20_GlobalTopK ==
    [][(pc = "beam_loop" /\ step' = step + 1) =>
          LET rows == 0 .. (BeamK - 1)
              Kept == {e \in Parents \X Vocab :
                         \E j \in rows :
                            /\ generated'[j] = write_token(generated[e[1]], step, e[2])
                            /\ scores'[j] = ExtensionScore(scorer', e[1], e[2])}
          IN /\ \A j \in rows : \E e \in Kept :
                   generated'[j] = write_token(generated[e[1]], step, e[2])
             /\ \A j, l \in rows : j # l => generated'[j] # generated'[l]
             /\ Cardinality(Kept) = BeamK
             /\ \A e \in (Parents \X Vocab) \ Kept : \A j \in rows :
                   Leq(ExtensionScore(scorer', e[1], e[2]), scores'[j])]_vars

\* Witness for C20: a beam search of width two over two or more units in
\* which, after the first step, both surviving beams extend the same parent,
\* the other parent's extensions having been dropped.
C20_Witness ==
    /\ args.entry = "beam" /\ args.beam_width = 2 /\ beams.done /\ n_valid >= 2
    /\ beams.all[0][0] = beams.all[1][0]
    /\ Less(beams.acc[1], beams.acc[0])

\* ---------------------------------------------------------------- C21
\* Row `child` is row `parent` with one token written at position i and
\* nothing else changed.
ExtendsAt(child, parent, i) ==
    /\ \A p \in Positions : p # i => child[p] = parent[p]
    /\ IsOneHot(child[i])

\* C21: a step i of forward_beam_search changes only position i: every new
\* beam is one of the parent beams with its positions 0..i-1 intact, a single
\* token at position i and all-zero positions above i; its score is that of
\* its own token; and two new beams with the same prefix hold different
\* tokens at position i.
C21_RebuildFrame ==
    [][(pc = "beam_loop" /\ step' = step + 1) =>
          LET rows == 0 .. (BeamK - 1)
          IN /\ \A j \in rows :
                   /\ \E k \in Parents :
                         /\ ExtendsAt(generated'[j], generated[k], step)
                         /\ scores'[j] =
                               ExtensionScore(scorer', k, VecArgMax(generated'[j][step]))
                   /\ \A p \in Positions : p > step => generated'[j][p] = ZeroOrder
             /\ \A j, l \in rows :
                   (j # l /\ \A p \in 0 .. (step - 1) :
                               generated'[j][p] = generated'[l][p])
                      => generated'[j][step] # generated'[l][step]]_vars

\* Witness for C21: in the loop of a beam search of width two, after the
\* rebuild at step 1, the two beams share their parent's first token, hold
\* different tokens at position 1 and nothing above it.
C21_Witness ==
    /\ args.entry = "beam" /\ pc = "beam_loop" /\ step = 2 /\ args.beam_width = 2
    /\ generated[0][0] = generated[1][0]
    /\ generated[0][1] # generated[1][1]
    /\ IsOneHot(generated[0][1]) /\ IsOneHot(generated[1][1])
    /\ generated[0][2] = ZeroOrder /\ generated[1][2] = ZeroOrder

\* ---------------------------------------------------------------- C22
\* Row seq holds an order token exactly at the positions of valid units.
OrdersOnValidUnits(seq) ==
    \A p \in Positions :
        IF units[p] >= 0 THEN IsOneHot(seq[p]) ELSE seq[p] = ZeroOrder

\* C22 as claimed: when forward_beam_search or forward_topk_sampling returns,
\* for any unit list, a position of a returned sequence holds exactly one
\* order token if the unit at that position is valid and the all-zero vector
\* if it is padding.
C22_AsClaimed ==
    /\ beams.done => \A k \in DOMAIN beams.all : OrdersOnValidUnits(beams.all[k])
    /\ samples.done => \A n \in DOMAIN samples.seqs : OrdersOnValidUnits(samples.seqs[n])

\* C22: when forward_beam_search or forward_topk_sampling returns for a unit
\* list whose padding is all trailing, a position of a returned sequence holds
\* exactly one order token if the unit at that position is valid and the
\* all-zero vector if it is padding; for any unit list the tokens are at the
\* first n_valid positions.
C22_OrdersOnLeadingPositions ==
    LET Filled(seq) == \A p \in Positions :
                          IF p < n_valid THEN IsOneHot(seq[p]) ELSE seq[p] = ZeroOrder
    IN /\ beams.done =>
            \A k \in DOMAIN beams.all :
               /\ Filled(beams.all[k])
               /\ PaddedAtEnd(units) => OrdersOnValidUnits(beams.all[k])
       /\ samples.done =>
            \A n \in DOMAIN samples.seqs :
               /\ Filled(samples.seqs[n])
               /\ PaddedAtEnd(units) => OrdersOnValidUnits(samples.seqs[n])

\* Witness for C22: the sampler has returned for a unit list with valid
\* units followed by padding.
C22_Witness ==
    /\ args.entry = "sample" /\ samples.done /\ PaddedAtEnd(units)
    /\ n_valid >= 1 /\ n_valid < Cardinality(Positions)
    /\ OrdersOnValidUnits(samples.seqs[0])

\* ---------------------------------------------------------------- one draw
\* The orders of a prefix when one step of the sampler is run on its own.
DrawOrders ==
    {encode_order_label([unit |-> "A", src |-> 0, src_coast |-> "", action |-> "-",
                         dst |-> d, dst_coast |-> ""]) : d \in 0 .. (NUM_AREAS - 1)}
    \cup {encode_order_label([unit |-> "A", src |-> 0, src_coast |-> "", action |-> "H",
                              dst |-> 0, dst_coast |-> ""]), ZeroOrder}

\* top_k as the caller may pass it: negative, 0, inside the vocabulary, the
\* vocabulary size and above it.
DrawTopKs == {0 - 1, 0, 1, 2, ORDER_VOCAB_SIZE, ORDER_VOCAB_SIZE + 1}

\* One step of the loop of forward_topk_sampling on one row, from the mask
\* to the draw: the row has the prefix generated[0] and the logits scores.
SampleDraw ==
    /\ pc = "draw_call"
    /\ LET logits == sample_logits(scores, generated[0])
           scaled == Tensor([v \in Vocab |-> scale_sampling(logits[v], args.temperature)])
           choices == sample_choices(scores, generated[0])
       IN IF choices = {}
          THEN pc' = "error" /\ out' = out
          ELSE /\ \E sampled_idx \in choices :
                     out' = [done |-> TRUE,
                             mask |-> build_destination_mask(generated[0], step),
                             scaled |-> scaled,
                             filtered |-> topk_filter(scaled, args.top_k),
                             token |-> sampled_idx]
               /\ pc' = "done"
    /\ UNCHANGED <<units, args, scorer, calls, step, generated, scores, beams,
                   samples, prior>>

InitDraw ==
    /\ units = NoUnits
    /\ args \in {[DefaultArgs EXCEPT !.entry = "sample_draw", !.top_k = k,
                                     !.temperature = t] :
                    k \in DrawTopKs, t \in Temperatures}
    /\ scorer = <<>> /\ calls = 0 /\ pc = "draw_call"
    /\ step \in 0 .. MaxUnits
    /\ generated \in {[b \in 0 .. 0 |-> r] : r \in [Positions -> DrawOrders]}
    /\ \A p \in Positions : p >= step => generated[0][p] = ZeroOrder
    /\ scores \in Dist
    /\ beams = NoReturn /\ samples = NoReturn /\ out = NoReturn /\ prior = NoReturn
NextDraw == SampleDraw
SpecDraw == InitDraw /\ [][NextDraw]_vars

\* The number of entries of x strictly above x[v].
Above(x, v) == Cardinality({u \in Vocab : x[u] > x[v]})

\* C23: in forward_topk_sampling with 0 < top_k < V the token drawn at a
\* step has a scaled score at least the top_k-th largest scaled score of its
\* row, every entry at or above that threshold keeps its score after the
\* filter, and the token is never one the row's destination mask forbids;
\* with top_k <= 0 or top_k >= V the filter changes nothing. The draw never
\* fails.
C23_TopKThreshold ==
    args.entry = "sample_draw" =>
        /\ pc # "error"
        /\ pc = "done" =>
              /\ out.token \notin out.mask
              /\ out.filtered[out.token] # NegInf
              /\ (args.top_k > 0 /\ args.top_k < ORDER_VOCAB_SIZE) =>
                    /\ Above(out.scaled, out.token) < args.top_k
                    /\ \A v \in Vocab :
                          out.filtered[v] =
                             IF Above(out.scaled, v) < args.top_k THEN out.scaled[v]
                             ELSE NegInf
              /\ (args.top_k <= 0 \/ args.top_k >= ORDER_VOCAB_SIZE) =>
                    out.filtered = out.scaled

\* Witness for C23: with top_k = 2 a row whose mask forbids a destination the
\* logits favour has drawn a token that ties with more than two entries at
\* the threshold.
C23_Witness ==
    /\ args.entry = "sample_draw" /\ pc = "done" /\ args.top_k = 2
    /\ \E v \in out.mask : scores[v] = HotLogit
    /\ Cardinality({v \in Vocab : out.scaled[v] = out.scaled[out.token]}) > 2
    /\ Above(out.scaled, out.token) = 1

\* ---------------------------------------------------------------- C24
RECURSIVE DecodeScore(_, _)
\* The sum, over the positions below n of a decoded row, of the
\* log-probability the scorer's output for the row's prefix gives the token
\* at the position.
DecodeScore(row, n) ==
    IF n = 0 THEN One
    ELSE Plus(DecodeScore(row, n - 1),
              log_softmax(scorer[decode_step_view(units, row, n - 1)])
                  [VecArgMax(row[n - 1])])

\* C24: the score forward_topk_sampling holds for a sample after each step,
\* and returns, is the sum over the steps taken of the log-probability of the
\* token drawn, taken from the log-softmax of the scorer's output without
\* temperature scaling or top-k filtering; it is a function of the sample's
\* own tokens alone.
C24_SampleScore ==
    args.entry = "sample" =>
        /\ pc = "sample_loop" =>
              \A n \in DOMAIN generated : scores[n] = DecodeScore(generated[n], step)
        /\ samples.done =>
              \A n \in DOMAIN samples.seqs :
                 samples.scores[n] = DecodeScore(samples.seqs[n], n_valid)

\* Witness for C24: two samples drawn with a degenerate temperature over two
\* units were returned with different scores below 0.
C24_Witness ==
    /\ args.entry = "sample" /\ samples.done /\ n_valid = 2
    /\ args.num_samples = 2 /\ args.temperature # 1
    /\ Less(samples.scores[0], One)
    /\ samples.scores[0] # samples.scores[1]

\* ---------------------------------------------------------------- C25
\* The sequences under construction in the decode loop under way.
LoopRows == IF args.entry = "greedy" THEN {generated}
            ELSE {generated[k] : k \in DOMAIN generated}

InLoop == pc \in {"greedy_loop", "beam_loop", "sample_loop"}

\* The input of the scorer at step i as far as it depends on the sequence
\* row: per position j <= i the unit of the list u at j, the position j and
\* the token of row at j - 1, the start token at position 0.
StepInput(u, row, i) ==
    [j \in 0 .. i |->
        [unit |-> Max(u[j], 0), pos |-> j,
         order |-> IF j = 0 THEN <<"sos_embed">> ELSE OrderEmbedding(row[j - 1])]]

\* C25 as claimed: the input of the scorer call of step i is made of the unit
\* at position i, the position i and the tokens of steps 0..i-1 of the same
\* sequence, so it is the same for any unit list with the same unit at
\* position i.
C25_AsClaimed ==
    (InLoop /\ step \in Positions) =>
        \A row \in LoopRows : \A u \in UnitLists :
            u[step] = units[step]
                => decode_step_view(u, row, step) = decode_step_view(units, row, step)

\* C25: in greedy decoding, beam search and sampling the scorer call of step
\* i is made when every sequence holds its tokens of steps 0..i-1 and none
\* above; the inputs it is called on are, for each sequence, the units at
\* positions 0..i, the positions 0..i and the tokens of steps 0..i-1 of that
\* same sequence behind the start token, and nothing of another sequence.
C25_Sequential ==
    [][(InLoop /\ step' = step + 1) =>
          /\ \A row \in LoopRows : \A p \in Positions :
                IF p < step THEN IsOneHot(row[p]) ELSE row[p] = ZeroOrder
          /\ \A row \in LoopRows : StepInput(units, row, step) \in DOMAIN scorer'
          /\ DOMAIN scorer' \ DOMAIN scorer
                \subseteq {StepInput(units, row, step) : row \in LoopRows}]_vars

\* Witness for C25: at step 2 of a beam search two sequences with different
\* committed tokens have each been scored on their own input.
C25_Witness ==
    /\ args.entry = "beam" /\ pc = "beam_loop" /\ step = 2
    /\ Cardinality(LoopRows) = 2
    /\ \A row \in LoopRows : StepInput(units, row, 1) \in DOMAIN scorer
    /\ \E r1, r2 \in LoopRows : StepInput(units, r1, 1) # StepInput(units, r2, 1)

\* ---------------------------------------------------------------- C26
\* The caller runs beam search again on the same position with
\* constrain_destinations switched.
BeamAgainSwitched ==
    /\ pc = "done"
    /\ args.entry = "beam"
    /\ prior = NoReturn
    /\ args' = [args EXCEPT !.constrain = ~ args.constrain]
    /\ prior' = beams
    /\ beams' = NoReturn
    /\ calls' = 0
    /\ pc' = "beam_call"
    /\ UNCHANGED <<units, scorer, step, generated, scores, samples, out>>

\* Beam search run twice, the second time with constrain_destinations
\* switched, and single-sample filtered sampling.
InitSwitched == \/ InitWith(BeamArgs, "beam_call")
                \/ /\ InitWith(SampleArgs, "sample_call")
                   /\ args.num_samples = 1 /\ ~ WideDraw(args)
NextSwitched == \/ BeamCall \/ BeamStep \/ BeamReturn \/ BeamAgainSwitched
                \/ SampleCall \/ SampleStep \/ SampleReturn
SpecSwitched == InitSwitched /\ [][NextSwitched]_vars

\* C26: every token beam search and sampling have committed is one-hot over
\* the whole vocabulary, so no position of a sequence under construction
\* claims a destination and _build_destination_mask is empty for it at every
\* step; and forward_beam_search returns the same beams, scores and best
\* sequence with constrain_destinations on and off.
C26_MaskNeverBinds ==
    /\ pc \in {"beam_loop", "sample_loop"} =>
          \A k \in DOMAIN generated :
             /\ \A p \in Positions :
                   /\ generated[k][p] = ZeroOrder \/ IsOneHot(generated[k][p])
                   /\ ~ claims_dst(generated[k][p])
             /\ \A i \in 0 .. MaxUnits : build_destination_mask(generated[k], i) = {}
    /\ (pc = "done" /\ args.entry = "beam" /\ prior.done /\ beams.done) =>
          beams = prior

\* Witness for C26: beam search has returned the same beams with the
\* constraint on and off, the best of them naming the MOVE type and a
\* destination slot.
C26_Witness ==
    /\ pc = "done" /\ args.entry = "beam" /\ prior.done /\ beams.done
    /\ args.beam_width = 2 /\ beams.all = prior.all
    /\ \E p, q \in Positions :
          /\ beams.all[0][p] = one_hot(TYPE_MOVE)
          /\ beams.all[0][q] = one_hot(DST_START)

\* ---------------------------------------------------------------- C27
Finite(score) == score.n > 0

\* C27: no step of beam search or of the sampler is all-masked. Whatever the
\* scorer returns at the step under way, beam search has at least K
\* extensions of finite score per beam and the sampler has a token to draw in
\* every row; every cumulative score held or returned is finite; and the
\* sampler never fails on an all -inf row.
C27_NoAllMaskedStep ==
    /\ args.batch = 1 => pc # "error"
    /\ (pc = "beam_loop" /\ step < n_valid) =>
          \A k \in DOMAIN generated : \A l \in Dist :
             Cardinality({v \in Vocab :
                 Finite(beam_log_probs(l, build_destination_mask(generated[k], step),
                                       args.constrain)[v])}) >= BeamK
    /\ (pc = "sample_loop" /\ step < n_valid) =>
          \A n \in DOMAIN generated : \A l \in Dist :
             sample_choices(l, generated[n]) # {}
    /\ pc \in {"beam_loop", "sample_loop"} =>
          \A k \in DOMAIN scores : Finite(scores[k])
    /\ (beams.done /\ n_valid > 0) => \A k \in DOMAIN beams.acc : Finite(beams.acc[k])
    /\ samples.done => \A n \in DOMAIN samples.scores : Finite(samples.scores[n])

\* Witness for C27: a constrained sampler with top_k = 1 has taken two or
\* more steps and returned a sequence with a finite score below 0.
C27_Witness ==
    /\ args.entry = "sample" /\ samples.done /\ args.constrain /\ args.top_k = 1
    /\ n_valid >= 2
    /\ Finite(samples.scores[0]) /\ Less(samples.scores[0], One)

\* ---------------------------------------------------------------- C28
PairwiseDistinct(t) == \A k, l \in DOMAIN t : k # l => t[k] # t[l]

\* C28: with at least one valid unit the K beams of forward_beam_search are
\* pairwise distinct token sequences after every step and at the return;
\* the deduplication of generate_candidates then removes no beam candidate,
\* and the first min(beam_width, num_candidates) candidates returned are the
\* beams in beam order.
C28_BeamsDistinct ==
    /\ (pc = "beam_loop" /\ step >= 1) => PairwiseDistinct(generated)
    /\ (beams.done /\ n_valid >= 1) =>
          /\ Rows(beams.all) = BeamK
          /\ PairwiseDistinct(beams.all)
          /\ PairwiseDistinct([k \in DOMAIN beams.all |-> signature(beams.all[k])])
    /\ (CandDone /\ n_valid >= 1) =>
          /\ Rows(out.seqs) >= Min(args.beam_width, args.num_candidates)
          /\ \A k \in 0 .. (Min(args.beam_width, args.num_candidates) - 1) :
                /\ out.unique_idx[k + 1] = k
                /\ out.seqs[k] = beams.all[k]

\* Witness for C28: generate_candidates has returned two beams first and a
\* sampled candidate after them, having dropped another candidate as a
\* duplicate.
C28_Witness ==
    /\ CandDone /\ n_valid >= 1 /\ Rows(beams.all) = 2
    /\ out.seqs[0] = beams.all[0] /\ out.seqs[1] = beams.all[1]
    /\ Rows(out.seqs) = 3
    /\ Rows(out.all_candidates) > 3

\* ---------------------------------------------------------------- C29
\* C29: on a unit list whose padding is trailing, the score _score_candidates
\* gives a sequence by teacher-forced replay equals the cumulative score
\* forward_beam_search or forward_topk_sampling accumulated for it while
\* decoding, and at every valid position the replay queries the scorer on the
\* input the decode step of that position had.
C29_ScoresAgree ==
    (CandDone /\ PaddedAtEnd(units)) =>
        /\ \A k \in DOMAIN beams.acc : out.all_scores[k] = beams.acc[k]
        /\ \A n \in DOMAIN samples.seqs :
              out.all_scores[Rows(beams.all) + n] = samples.scores[n]
        /\ \A i \in DOMAIN out.all_candidates : \A p \in 0 .. (n_valid - 1) :
              teacher_forcing_view(units, out.all_candidates[i], p)
                 = decode_step_view(units, out.all_candidates[i], p)

\* Witness for C29: on two units followed by padding a beam and a sampled
\* sequence that differ were rescored to their decode-time scores, which
\* differ as well.
C29_Witness ==
    /\ CandDone /\ PaddedAtEnd(units) /\ n_valid = 2
    /\ Rows(samples.seqs) >= 1 /\ Rows(beams.acc) >= 1
    /\ out.all_scores[0] = beams.acc[0]
    /\ out.all_scores[Rows(beams.all)] = samples.scores[0]
    /\ samples.scores[0] # beams.acc[0]
    /\ Less(beams.acc[0], One)

\* ---------------------------------------------------------------- C30
\* The one-hot tokens whose three section arg maxes are all 0: the first type
\* index, the first source index and the first destination index.
AlikeTokens == {one_hot(0), one_hot(NUM_TYPES), one_hot(DST_START)}

\* C30: as history the one-hot tokens at the first type, source and
\* destination index are indistinguishable. Replacing one of them by another
\* at an earlier step of a sequence under construction changes neither the
\* scorer input nor the destination mask of any step, while replacing it by
\* the all-zero vector, which has the null embedding, changes the scorer
\* input of the next step.
C30_AlikeHistory ==
    /\ OrderEmbedding(ZeroOrder) = <<"null_embed">>
    /\ InLoop =>
          \A row \in LoopRows : \A p \in Positions :
             (p < step /\ row[p] \in AlikeTokens) =>
                /\ \A t \in AlikeTokens : \A i \in Positions :
                      LET other == [row EXCEPT ![p] = t]
                      IN /\ decode_step_view(units, other, i)
                               = decode_step_view(units, row, i)
                         /\ build_destination_mask(other, i)
                               = build_destination_mask(row, i)
                /\ p + 1 \in Positions =>
                      decode_step_view(units, [row EXCEPT ![p] = ZeroOrder], p + 1)
                         # decode_step_view(units, row, p + 1)

\* Witness for C30: after step 0 of a beam search over two or more units one
\* beam holds the first type token and the other the first destination
\* token, and the scorer input of step 1 is the same for both.
C30_Witness ==
    /\ args.entry = "beam" /\ pc = "beam_loop" /\ step = 1 /\ n_valid >= 2
    /\ \E k, l \in DOMAIN generated :
          /\ generated[k][0] = one_hot(0) /\ generated[l][0] = one_hot(DST_START)
          /\ decode_step_view(units, generated[k], 1)
                = decode_step_view(units, generated[l], 1)

====
